---- MODULE Spec2Model ----
(***************************************************************************)
(* Model of the docent stock-selection front end: the fuzzy ticker search  *)
(* (calculateSimilarity / fuzzySearch) and the selection state of the      *)
(* Search page (handleAddStock / handleRemoveStock / handlePress).         *)
(*                                                                         *)
(* Strings are sequences of UTF-16 code units (integers).  Scores are      *)
(* JavaScript numbers (IEEE 754 doubles), kept exactly as records          *)
(* [n, d, o] that stand for (n + o * 2^-60) / d with d > 0: n / d is the   *)
(* value the arithmetic would give over the reals and o the deviation of   *)
(* the double from it.                                                     *)
(***************************************************************************)
EXTENDS Integers, Sequences, FiniteSets, TLC

VARIABLES
    stocks,          \* the catalog (Stock[]) the page searches
    keyword,         \* useState('') of Search
    selectedStocks,  \* useState<SelectedStock[]>([]) of Search
    rendered,        \* the keyword / selectedStocks values the handlers of the last render closed over
    route,           \* current location path
    locationState,   \* the state object handed to navigation()
    lastOp,          \* history: the handler that ran last and its argument
    query,           \* query argument of the scorer / ranker application
    text,            \* text argument of the calculateSimilarity application
    sim,             \* value returned by the last calculateSimilarity application
    text2,           \* text argument of a second calculateSimilarity application with the same query
    sim2,            \* value returned by that second application
    ranked,          \* value returned by the last fuzzySearch application (catalog positions)
    scored,          \* the per-candidate `score` values computed by the last fuzzySearch loop
    removes,         \* history: number of handleRemoveStock calls of the current visit
    isLoading,       \* useState(true) of Report
    error,           \* useState<string | null>(null) of Report
    portfolioData,   \* useState<PortfolioData | null>(null) of Report
    requests,        \* the fetch calls of Report in the order issued, with their outcome once settled
    strictMode,      \* the build double-invokes the effects of a mount (StrictMode in development)
    navigations,     \* history: number of changes of location.state while Report is mounted
    pc               \* "input" before / "done" after an application of a pure function; "page" while Search runs;
                     \* "enter" when /report is entered and "report" once Report is mounted

vars == <<pc, stocks, keyword, selectedStocks, rendered, route, locationState, lastOp, removes,
          query, text, sim, text2, sim2, ranked, scored,
          isLoading, error, portfolioData, requests, strictMode, navigations>>

pageVars == <<keyword, selectedStocks, rendered, route, locationState, lastOp, removes>>
pureVars == <<query, text, sim, text2, sim2, ranked, scored>>
reportVars == <<isLoading, error, portfolioData, requests, strictMode, navigations>>

----------------------------------------------------------------------------
(* Bounds of the explored input spaces *)

MaxStrLen == 3
MaxQueryLen == 2
MaxRemoves == 1
MaxCompareLen == 2
MaxNavigations == 1

----------------------------------------------------------------------------
(* Numbers *)

\* an integer literal
Num(k) == [n |-> k, d |-> 1, o |-> 0]

\* the element of a one-element set; an operand bound this way is evaluated once
The(S) == CHOOSE r \in S : TRUE

RECURSIVE GCD(_, _)
GCD(a, b) == IF b = 0 THEN a ELSE GCD(b, a % b)

\* 2^k mod m for k in 0..90, without leaving 32 bits
Pow2Mod(k, m) ==
    LET low == (2^30) % m
    IN IF k <= 30 THEN (2^k) % m
       ELSE IF k <= 60 THEN (low * ((2^(k - 30)) % m)) % m
       ELSE (((low * low) % m) * ((2^(k - 60)) % m)) % m

\* floor(log2(n / d)) for n, d > 0
RECURSIVE Log2Up(_, _, _)
Log2Up(n, d, e) == IF n < d * 2^(e + 1) THEN e ELSE Log2Up(n, d, e + 1)

RECURSIVE Log2Down(_, _, _)
Log2Down(n, d, e) == IF n * 2^(-e) >= d THEN e ELSE Log2Down(n, d, e - 1)

Log2(n, d) == IF n >= d THEN Log2Up(n, d, 0) ELSE Log2Down(n, d, -1)

Sgn(x) == IF x > 0 THEN 1 ELSE IF x < 0 THEN -1 ELSE 0

\* the binary exponent of the real (n + p * 2^-60) / d, n, d > 0
Exponent(n, d, p) ==
    The({ IF p < 0 /\ (IF e0 >= 0 THEN n = d * 2^e0 ELSE n * 2^(-e0) = d) THEN e0 - 1 ELSE e0 :
          e0 \in {Log2(n, d)} })

\* The double nearest to the real (n + p * 2^-60) / d + r, ties to even, where r
\* is a real far below 2^-60 of which only the sign below2 matters.  Doubles of
\* exponent e are 2^(e-52) apart, which is s in units of 2^-60; f is the
\* remainder of n * 2^(52-e) by d and odd the parity of the quotient, so the
\* value sits num / den of a spacing above a double.
Nearest(n, d, p, below2, s, f, odd) ==
    LET num == f * s + p
        den == d * s
        up == (2 * num + den) \div (2 * den)
        tie == (2 * num + den) % (2 * den) = 0
        k == IF ~tie THEN up
             ELSE IF below2 > 0 THEN up
             ELSE IF below2 < 0 THEN up - 1
             ELSE IF (up % 2 = 0) = odd THEN up - 1 ELSE up
    IN [n |-> n, d |-> d, o |-> (k * d - f) * s]

RoundAt(n, d, p, below2, e) ==
    The({ Nearest(n, d, p, below2, s, f, odd) :
          s \in {2^(e + 8)},
          f \in {((n % d) * Pow2Mod(52 - e, d)) % d},
          odd \in {((n % (2 * d)) * Pow2Mod(52 - e, 2 * d)) % (2 * d) >= d} })

RoundToDouble(n, d, p, below2) ==
    IF n = 0 THEN [n |-> 0, d |-> 1, o |-> 0]
    ELSE The({ RoundAt(n, d, p, below2, e) : e \in {Exponent(n, d, p)} })

\* a / b of two integers
Div(a, b) == The({ RoundToDouble(n, d, 0, 0) : n \in {a}, d \in {b} })

\* x * y
Mul(x, y) ==
    The({ The({ RoundToDouble(n, d, p, Sgn(a.o) * Sgn(b.o)) :
                n \in {a.n * b.n}, d \in {a.d * b.d}, p \in {a.n * b.o + b.n * a.o} }) :
          a \in {x}, b \in {y} })

\* 1 - x
OneMinus(x) ==
    The({ The({ RoundToDouble(n, a.d, p, 0) : n \in {a.d - a.n}, p \in {-a.o} }) : a \in {x} })

\* the decimal literals 0.5 .. 1.2 of the source
Lit05 == Div(5, 10)
Lit06 == Div(6, 10)
Lit07 == Div(7, 10)
Lit08 == Div(8, 10)
Lit11 == Div(11, 10)
Lit12 == Div(12, 10)
Lit(k) ==
    CASE k = 5 -> Lit05 [] k = 6 -> Lit06 [] k = 7 -> Lit07
      [] k = 8 -> Lit08 [] k = 11 -> Lit11 [] k = 12 -> Lit12

\* x * (k / 10) with the literal k / 10
Times10th(x, k) == Mul(x, Lit(k))

\* the sign of a - b
CmpExact(a, b) ==
    LET major == a.n * b.d - b.n * a.d
        g == GCD(a.d, b.d)
    IN IF major # 0 THEN Sgn(major)
       ELSE Sgn(a.o * (b.d \div g) - b.o * (a.d \div g))

\* the sign of x - y
Cmp(x, y) == The({ CmpExact(a, b) : a \in {x}, b \in {y} })

Lt(x, y) == Cmp(x, y) < 0
Eq(x, y) == Cmp(x, y) = 0
Leq(x, y) == Cmp(x, y) <= 0
\* the smaller of the two
MathMaxAsMin(x, y) == IF Lt(x, y) THEN x ELSE y

MathMax(x, y) == IF Lt(x, y) THEN y ELSE x
MathMax3(x, y, z) == MathMax(MathMax(x, y), z)
MathMin(a, b) == IF a < b THEN a ELSE b

----------------------------------------------------------------------------
(* Strings *)

Range(s) == {s[i] : i \in 1..Len(s)}

\* toLowerCase left out
toLowerCaseIdentity(s) == s

\* String.prototype.toLowerCase on the characters of the model's alphabets:
\* A-Z map to a-z, everything else (digits, blanks, Hangul) maps to itself
toLowerCase(s) == [i \in 1..Len(s) |-> IF s[i] \in 65..90 THEN s[i] + 32 ELSE s[i]]

\* the WhiteSpace and LineTerminator code units String.prototype.trim strips
WhiteSpace == {9, 10, 11, 12, 13, 32, 160, 5760, 8232, 8233, 8239, 8287, 12288, 65279}
                  \cup (8192..8202)

\* trim stripping the ASCII blank only
trimAsciiBlank(s) == SelectSeq(s, LAMBDA c : c # 32)

RECURSIVE trimStart(_)
trimStart(s) == IF s # <<>> /\ Head(s) \in WhiteSpace THEN trimStart(Tail(s)) ELSE s

RECURSIVE trimEnd(_)
trimEnd(s) ==
    IF s # <<>> /\ s[Len(s)] \in WhiteSpace THEN trimEnd(SubSeq(s, 1, Len(s) - 1)) ELSE s

trim(s) == trimEnd(trimStart(s))

\* startsWith with receiver and argument exchanged
startsWithSwapped(t, q) == Len(t) <= Len(q) /\ SubSeq(q, 1, Len(t)) = t

startsWith(t, q) == Len(q) <= Len(t) /\ SubSeq(t, 1, Len(q)) = q

includes(t, q) == \E i \in 0..(Len(t) - Len(q)) : SubSeq(t, i + 1, i + Len(q)) = q

\* number of occurrences of character c in s (queryFreq[c] / textFreq[c] || 0)
Count(c, s) == Cardinality({i \in 1..Len(s) : s[i] = c})

----------------------------------------------------------------------------
(* Similarity scorer *)

Min3(a, b, c) == MathMin(MathMin(a, b), c)

\* one row dp[i][0..n] of the table, filled left to right from row i-1;
\* row[j + 1] holds dp[i][j]
RECURSIVE LevFill(_, _, _, _, _)
LevFill(prev, i, str1, str2, row) ==
    LET j == Len(row) IN
    IF j > Len(str2) THEN row
    ELSE LevFill(prev, i, str1, str2,
                 Append(row, IF str1[i] = str2[j]
                             THEN prev[j]
                             ELSE Min3(prev[j + 1] + 1, row[j] + 1, prev[j] + 1)))

RECURSIVE LevRows(_, _, _, _)
LevRows(str1, str2, i, prev) ==
    IF i > Len(str1) THEN prev[Len(str2) + 1]
    ELSE LevRows(str1, str2, i + 1, LevFill(prev, i, str1, str2, <<i>>))

levenshteinDistance(str1, str2) ==
    LevRows(str1, str2, 1, [j \in 1..(Len(str2) + 1) |-> j - 1])

\* the test with its arguments exchanged: every character of the text in the query
hasAllCharactersOfText(q, t) == \A i \in 1..Len(t) : t[i] \in Range(q)

hasAllCharacters(q, t) == \A i \in 1..Len(q) : q[i] \in Range(t)

\* the sum of the text counts, without the minimum
RECURSIVE SumMatchesTextCount(_, _, _)
SumMatchesTextCount(chars, q, t) ==
    IF chars = {} THEN 0
    ELSE LET c == CHOOSE x \in chars : TRUE
         IN Count(c, t) + SumMatchesTextCount(chars \ {c}, q, t)

RECURSIVE SumMatches(_, _, _)
SumMatches(chars, q, t) ==
    IF chars = {} THEN 0
    ELSE LET c == CHOOSE x \in chars : TRUE
         IN MathMin(Count(c, q), Count(c, t)) + SumMatches(chars \ {c}, q, t)

\* characterFrequencyScore dividing by the length of the text
characterFrequencyScoreByTextLength(q, t) ==
    LET matchCount == SumMatches(Range(q), q, t)
        totalTextChars == Len(t)
    IN IF totalTextChars > 0 THEN Mul(Div(matchCount, totalTextChars), Num(100)) ELSE Num(0)

characterFrequencyScore(q, t) ==
    LET matchCount == SumMatches(Range(q), q, t)
        totalQueryChars == Len(q)
    IN IF totalQueryChars > 0 THEN Mul(Div(matchCount, totalQueryChars), Num(100)) ELSE Num(0)

\* the loop of isSubsequence from text position i with queryIndex characters matched
RECURSIVE SubseqFrom(_, _, _, _)
SubseqFrom(q, t, i, queryIndex) ==
    IF i <= Len(t) /\ queryIndex < Len(q)
    THEN SubseqFrom(q, t, i + 1, IF t[i] = q[queryIndex + 1] THEN queryIndex + 1 ELSE queryIndex)
    ELSE queryIndex = Len(q)

isSubsequence(q, t) == SubseqFrom(q, t, 1, 0)

\* the rule cascade returning the edit similarity without its 0.7 weight
similarityRulesUndiscounted(lowerQuery, lowerText) ==
    LET maxLen == IF Len(lowerQuery) > Len(lowerText) THEN Len(lowerQuery) ELSE Len(lowerText)
        distance == levenshteinDistance(lowerQuery, lowerText)
        similarity == Mul(OneMinus(Div(distance, maxLen)), Num(100))
        freqScore == characterFrequencyScore(lowerQuery, lowerText)
    IN  IF lowerText = lowerQuery THEN Num(100)
        ELSE IF startsWith(lowerText, lowerQuery) THEN Num(95)
        ELSE IF includes(lowerText, lowerQuery) THEN Num(85)
        ELSE IF hasAllCharacters(lowerQuery, lowerText)
             THEN MathMax(IF isSubsequence(lowerQuery, lowerText) THEN Num(70) ELSE Num(50),
                          Times10th(freqScore, 8))
        ELSE IF maxLen > 0 /\ Leq(Num(50), similarity) THEN similarity
        ELSE IF isSubsequence(lowerQuery, lowerText) THEN Num(40)
        ELSE IF Lt(Num(60), freqScore) THEN Times10th(freqScore, 5)
        ELSE Num(0)

\* the rule cascade returning the edit similarity whatever its size
similarityRulesNoEditFloor(lowerQuery, lowerText) ==
    LET maxLen == IF Len(lowerQuery) > Len(lowerText) THEN Len(lowerQuery) ELSE Len(lowerText)
        distance == levenshteinDistance(lowerQuery, lowerText)
        similarity == Mul(OneMinus(Div(distance, maxLen)), Num(100))
        freqScore == characterFrequencyScore(lowerQuery, lowerText)
    IN  IF lowerText = lowerQuery THEN Num(100)
        ELSE IF startsWith(lowerText, lowerQuery) THEN Num(95)
        ELSE IF includes(lowerText, lowerQuery) THEN Num(85)
        ELSE IF hasAllCharacters(lowerQuery, lowerText)
             THEN MathMax(IF isSubsequence(lowerQuery, lowerText) THEN Num(70) ELSE Num(50),
                          Times10th(freqScore, 8))
        ELSE IF maxLen > 0 THEN Times10th(similarity, 7)
        ELSE IF isSubsequence(lowerQuery, lowerText) THEN Num(40)
        ELSE IF Lt(Num(60), freqScore) THEN Times10th(freqScore, 5)
        ELSE Num(0)

\* the rule cascade of calculateSimilarity over the lower-cased strings
similarityRules(lowerQuery, lowerText) ==
    LET maxLen == IF Len(lowerQuery) > Len(lowerText) THEN Len(lowerQuery) ELSE Len(lowerText)
        distance == levenshteinDistance(lowerQuery, lowerText)
        similarity == Mul(OneMinus(Div(distance, maxLen)), Num(100))
        freqScore == characterFrequencyScore(lowerQuery, lowerText)
    IN  IF lowerText = lowerQuery THEN Num(100)
        ELSE IF startsWith(lowerText, lowerQuery) THEN Num(95)
        ELSE IF includes(lowerText, lowerQuery) THEN Num(85)
        ELSE IF hasAllCharacters(lowerQuery, lowerText)
             THEN MathMax(IF isSubsequence(lowerQuery, lowerText) THEN Num(70) ELSE Num(50),
                          Times10th(freqScore, 8))
        ELSE IF maxLen > 0 /\ Leq(Num(50), similarity) THEN Times10th(similarity, 7)
        ELSE IF isSubsequence(lowerQuery, lowerText) THEN Num(40)
        ELSE IF Lt(Num(60), freqScore) THEN Times10th(freqScore, 5)
        ELSE Num(0)

\* calculateSimilarity without its first line
calculateSimilarityNoEmptyCheck(q, t) == similarityRules(toLowerCase(q), toLowerCase(t))

calculateSimilarity(q, t) ==
    IF q = <<>> \/ t = <<>> THEN Num(0)
    ELSE similarityRules(toLowerCase(q), toLowerCase(t))

----------------------------------------------------------------------------
(* Catalog *)

\* interface Stock { symbol; name; krName? }: krName is an optional field
Stock(symbol, name) == [symbol |-> symbol, name |-> name]
StockKr(symbol, name, krName) == [symbol |-> symbol, name |-> name, krName |-> krName]

\* Entries in the shape of nasdaq_stocks.json joined with the Korean name table
Pool ==
    <<
        \* AAPL / Apple / (Korean name, 2 syllables)
        StockKr(<<65, 65, 80, 76>>, <<65, 112, 112, 108, 101>>, <<50528, 54540>>),
        \* TSLA / Tesla / (Korean name, te-seul-la)
        StockKr(<<84, 83, 76, 65>>, <<84, 101, 115, 108, 97>>, <<53580, 49836, 46972>>),
        \* AMZN / Amazon / (Korean name, 3 syllables)
        StockKr(<<65, 77, 90, 78>>, <<65, 109, 97, 122, 111, 110>>, <<50500, 47560, 51316>>),
        \* APP / AppLovin
        Stock(<<65, 80, 80>>, <<65, 112, 112, 76, 111, 118, 105, 110>>),
        \* AAL / American
        Stock(<<65, 65, 76>>, <<65, 109, 101, 114, 105, 99, 97, 110>>),
        \* PYPL / PayPal / (Korean name, 3 syllables)
        StockKr(<<80, 89, 80, 76>>, <<80, 97, 121, 80, 97, 108>>, <<54168, 51060, 54036>>),
        \* AAON / AAON
        Stock(<<65, 65, 79, 78>>, <<65, 65, 79, 78>>),
        \* PAA / Plains
        Stock(<<80, 65, 65>>, <<80, 108, 97, 105, 110, 115>>),
        \* APA / APA Corp
        Stock(<<65, 80, 65>>, <<65, 80, 65, 32, 67, 111, 114, 112>>),
        \* AAP / Advance
        Stock(<<65, 65, 80>>, <<65, 100, 118, 97, 110, 99, 101>>),
        \* PANW / Palo Alto
        Stock(<<80, 65, 78, 87>>, <<80, 97, 108, 111, 32, 65, 108, 116, 111>>),
        \* MSFT / Microsoft
        Stock(<<77, 83, 70, 84>>, <<77, 105, 99, 114, 111, 115, 111, 102, 116>>),
        \* PEP / PepsiCo / (Korean name, 3 syllables)
        StockKr(<<80, 69, 80>>, <<80, 101, 112, 115, 105, 67, 111>>, <<54185, 49884, 53076>>) >>

Reverse(s) == [i \in 1..Len(s) |-> s[Len(s) + 1 - i]]

\* [{AAPL, "Apple Inc."}, {MSFT, "Microsoft Corp."}]
ScenarioCatalog ==
    << Stock(<<65, 65, 80, 76>>, <<65, 112, 112, 108, 101, 32, 73, 110, 99, 46>>),
       Stock(<<77, 83, 70, 84>>,
             <<77, 105, 99, 114, 111, 115, 111, 102, 116, 32, 67, 111, 114, 112, 46>>) >>

\* eleven entries KA .. KK whose Korean names all start with te-seul
KoreanCatalog ==
    [i \in 1..11 |-> StockKr(<<75, 64 + i>>, <<75, 64 + i>>, <<53580, 49836, 44032 + i>>)]

\* the entries of the pool as nasdaq_stocks.json holds them, without Korean names
EnglishPool == [i \in 1..Len(Pool) |-> Stock(Pool[i].symbol, Pool[i].name)]

\* the catalogs the ranker is applied to: every prefix of the pool, the pool in
\* reverse order, the pool without Korean names, the two-entry catalog and the
\* catalog of Korean names
Catalogs ==
    {SubSeq(Pool, 1, k) : k \in 0..Len(Pool)}
        \cup {Reverse(Pool), EnglishPool, ScenarioCatalog, KoreanCatalog}

\* a, p, A, space, the Hangul syllable te
QueryChars == {97, 112, 65, 32, 53580}

\* longer queries: "appl", "aap", "AAP", "pal", te-seul, the Korean name of AAPL,
\* "ap" + te, space + ideographic space, the jamo t, "a" + the jamo t
ScenarioQueries ==
    { <<97, 112, 112, 108>>, <<97, 97, 112>>, <<65, 65, 80>>, <<112, 97, 108>>,
      <<53580, 49836>>, <<50528, 54540>>, <<97, 112, 53580>>,
      <<32, 12288>>, <<12620>>, <<97, 12620>> }

StringsUpTo(chars, k) == UNION {[1..m -> chars] : m \in 0..k}

Queries == StringsUpTo(QueryChars, MaxQueryLen) \cup ScenarioQueries

----------------------------------------------------------------------------
(* Catalog ranker *)

Threshold == 25
TopN == 10

\* the character class tested against the first character only
hasKoreanAnchored(q) ==
    q # <<>> /\ q[1] \in (12593..12622) \cup (12623..12643) \cup (44032..55203)

\* the character class without the syllable range
hasKoreanJamoOnly(q) ==
    \E i \in 1..Len(q) : q[i] \in (12593..12622) \cup (12623..12643)

\* the Korean test of the query: compatibility jamo consonants U+3131-U+314E and
\* vowels U+314F-U+3163, syllables U+AC00-U+D7A3
hasKorean(q) ==
    \E i \in 1..Len(q) :
        q[i] \in (12593..12622) \cup (12623..12643) \cup (44032..55203)

\* the candidate scored by its symbol alone
combinedScoreSymbolOnly(q, stock) ==
    Times10th(calculateSimilarity(toLowerCase(q), toLowerCase(stock.symbol)), 11)

\* the candidate scored without the weight of its symbol
combinedScoreUnboosted(q, stock) ==
    MathMax(calculateSimilarity(toLowerCase(q), toLowerCase(stock.symbol)),
            calculateSimilarity(toLowerCase(q), toLowerCase(stock.name)))

\* body of the candidate loop: the value of `score` for one stock
combinedScore(q, stock) ==
    LET lowerQuery == toLowerCase(q)
        symbol == toLowerCase(stock.symbol)
        name == toLowerCase(stock.name)
        krName == IF "krName" \in DOMAIN stock THEN toLowerCase(stock.krName) ELSE <<>>
        symbolScore == calculateSimilarity(lowerQuery, symbol)
        nameScore == calculateSimilarity(lowerQuery, name)
        krScore == IF krName # <<>> THEN calculateSimilarity(lowerQuery, krName) ELSE Num(0)
    IN  IF hasKorean(q)
        THEN MathMax3(Times10th(krScore, 12), Times10th(nameScore, 7), Times10th(symbolScore, 5))
        ELSE MathMax3(Times10th(symbolScore, 11), nameScore, Times10th(krScore, 6))

\* the `score` of every candidate, in loop order
RECURSIVE loopScoresFrom(_, _, _, _)
loopScoresFrom(q, catalog, i, acc) ==
    IF i > Len(catalog) THEN acc
    ELSE loopScoresFrom(q, catalog, i + 1, Append(acc, combinedScore(q, catalog[i])))

loopScores(q, catalog) == loopScoresFrom(q, catalog, 1, <<>>)

\* the loop pushing every candidate
RECURSIVE pushResultsNoFilter(_, _, _)
pushResultsNoFilter(scores, i, results) ==
    IF i > Len(scores) THEN results
    ELSE pushResultsNoFilter(scores, i + 1, Append(results, [stock |-> i, score |-> scores[i]]))

\* the loop pushing a candidate once for its symbol and once for its name
RECURSIVE pushResultsTwice(_, _, _)
pushResultsTwice(scores, i, results) ==
    IF i > Len(scores) THEN results
    ELSE pushResultsTwice(scores, i + 1,
                          IF Lt(Num(Threshold), scores[i])
                          THEN results \o << [stock |-> i, score |-> scores[i]],
                                              [stock |-> i, score |-> scores[i]] >>
                          ELSE results)

\* the `results` array after the loop: {stock, score} of the candidates that passed the filter;
\* a stock is held as its position in the catalog (the object reference)
RECURSIVE pushResults(_, _, _)
pushResults(scores, i, results) ==
    IF i > Len(scores) THEN results
    ELSE pushResults(scores, i + 1,
                     IF Lt(Num(Threshold), scores[i])
                     THEN Append(results, [stock |-> i, score |-> scores[i]])
                     ELSE results)

\* a sort that places an element before the elements of equal score
RECURSIVE insertSortedTiesFirst(_, _)
insertSortedTiesFirst(sorted, e) ==
    IF sorted = <<>> THEN <<e>>
    ELSE IF Leq(Head(sorted).score, e.score) THEN <<e>> \o sorted
    ELSE <<Head(sorted)>> \o insertSortedTiesFirst(Tail(sorted), e)

\* the comparator with its operands exchanged: ascending order
RECURSIVE insertSortedAscending(_, _)
insertSortedAscending(sorted, e) ==
    IF sorted = <<>> THEN <<e>>
    ELSE IF Lt(e.score, Head(sorted).score) THEN <<e>> \o sorted
    ELSE <<Head(sorted)>> \o insertSortedAscending(Tail(sorted), e)

\* Array.prototype.sort((a, b) => b.score - a.score): stable, so an element goes
\* behind every element already placed whose score is not smaller
RECURSIVE insertSorted(_, _)
insertSorted(sorted, e) ==
    IF sorted = <<>> THEN <<e>>
    ELSE IF Lt(Head(sorted).score, e.score) THEN <<e>> \o sorted
    ELSE <<Head(sorted)>> \o insertSorted(Tail(sorted), e)

RECURSIVE sortByScoreDesc(_, _)
sortByScoreDesc(results, sorted) ==
    IF results = <<>> THEN sorted
    ELSE sortByScoreDesc(Tail(results), insertSorted(sorted, Head(results)))

slice(s, k) == SubSeq(s, 1, MathMin(k, Len(s)))

\* one run of fuzzySearch: the value returned (`ranked`) and the scores its loop
\* computed (`scored`, none when it returned before the loop)
runFuzzySearch(q, catalog) ==
    IF trim(q) = <<>> THEN [ranked |-> <<>>, scored |-> <<>>]
    ELSE The({ The({ [ranked |-> [i \in 1..Len(top) |-> top[i].stock], scored |-> scores] :
                     top \in {slice(sortByScoreDesc(pushResults(scores, 1, <<>>), <<>>), TopN)} }) :
               scores \in {loopScores(q, catalog)} })

fuzzySearch(q, catalog) == runFuzzySearch(q, catalog).ranked

\* body of the candidate loop of the English-only ranker
englishScore(q, stock) ==
    LET lowerQuery == toLowerCase(q)
        symbolScore == calculateSimilarity(lowerQuery, toLowerCase(stock.symbol))
        nameScore == calculateSimilarity(lowerQuery, toLowerCase(stock.name))
    IN MathMax(Times10th(symbolScore, 11), nameScore)

\* the English-only ranker: the same loop, filter, sort and slice over englishScore
englishFuzzySearch(q, catalog) ==
    IF trim(q) = <<>> THEN <<>>
    ELSE The({ [i \in 1..Len(top) |-> top[i].stock] :
               top \in {slice(sortByScoreDesc(
                            pushResults([i \in 1..Len(catalog) |-> englishScore(q, catalog[i])],
                                        1, <<>>), <<>>), TopN)} })

----------------------------------------------------------------------------
(* Applications of the pure functions *)

\* history record: the handler that ran and whether its argument took effect
\* (add: the stock was accepted; remove: an entry had the symbol)
Op(op, hit) == [op |-> op, hit |-> hit]

\* the value null of an unset state
null == "<null>"

\* Report is not mounted: its state holds the initial values of its useState calls
NoReport ==
    /\ isLoading = TRUE
    /\ error = null
    /\ portfolioData = [isNull |-> TRUE, stocks |-> <<>>]
    /\ requests = <<>>
    /\ strictMode = FALSE
    /\ navigations = 0

NoPage ==
    /\ keyword = <<>>
    /\ selectedStocks = <<>>
    /\ rendered = [keyword |-> <<>>, selectedStocks |-> <<>>]
    /\ route = "/search"
    /\ locationState = [hasState |-> FALSE, selectedStocks |-> <<>>]
    /\ lastOp = Op("none", FALSE)
    /\ removes = 0

\* strings over a, b, c, A
ScoreStrings == StringsUpTo({97, 98, 99, 65}, MaxStrLen)

\* longer pairs of query and text: "aabbc" / "bbaa", "ab" / "acbcc",
\* "abc" / "acbac", "AbC" / "axbxc"
ScoreScenarios ==
    { << <<97, 97, 98, 98, 99>>, <<98, 98, 97, 97>> >>,
      << <<97, 98>>, <<97, 99, 98, 99, 99>> >>,
      << <<97, 98, 99>>, <<97, 99, 98, 97, 99>> >>,
      << <<65, 98, 67>>, <<97, 120, 98, 120, 99>> >> }

InitScore ==
    /\ pc = "input"
    /\ stocks = <<>>
    /\ NoPage
    /\ \E pair \in (ScoreStrings \X ScoreStrings) \cup ScoreScenarios :
           query = pair[1] /\ text = pair[2]
    /\ sim = Num(0)
    /\ text2 = <<>>
    /\ sim2 = Num(0)
    /\ ranked = <<>>
    /\ scored = <<>>
    /\ NoReport

Score ==
    /\ pc = "input"
    /\ pc' = "done"
    /\ sim' = calculateSimilarity(query, text)
    /\ UNCHANGED <<stocks, query, text, text2, sim2, ranked, scored>>
    /\ UNCHANGED pageVars
    /\ UNCHANGED reportVars

NextScore == Score

SpecScore == InitScore /\ [][NextScore]_vars

InitRank ==
    /\ pc = "input"
    /\ stocks \in Catalogs
    /\ NoPage
    /\ query \in Queries
    /\ text = <<>>
    /\ sim = Num(0)
    /\ text2 = <<>>
    /\ sim2 = Num(0)
    /\ ranked = <<>>
    /\ scored = <<>>
    /\ NoReport

Rank ==
    /\ pc = "input"
    /\ pc' = "done"
    /\ LET run == runFuzzySearch(query, stocks)
       IN ranked' = run.ranked /\ scored' = run.scored
    /\ UNCHANGED <<stocks, query, text, sim, text2, sim2>>
    /\ UNCHANGED pageVars
    /\ UNCHANGED reportVars

NextRank == Rank

SpecRank == InitRank /\ [][NextRank]_vars

\* longer strings: "aaab", "aaac", "aabc", "abcb", "baaa", "aaacb",
\* "aaaaab", "aaaaac", "aaaaacb"
CompareScenarios ==
    { <<97, 97, 97, 98>>, <<97, 97, 97, 99>>, <<97, 97, 98, 99>>,
      <<97, 98, 99, 98>>, <<98, 97, 97, 97>>, <<97, 97, 97, 99, 98>>,
      <<97, 97, 97, 97, 97, 98>>, <<97, 97, 97, 97, 97, 99>>,
      <<97, 97, 97, 97, 97, 99, 98>> }

\* strings over a, b, c and the longer strings
CompareStrings == StringsUpTo({97, 98, 99}, MaxCompareLen) \cup CompareScenarios

\* one query scored against two texts, as the candidate loop scores one query
\* against the fields of every stock
InitCompare ==
    /\ pc = "input"
    /\ stocks = <<>>
    /\ NoPage
    /\ query \in CompareStrings
    /\ text \in CompareStrings
    /\ text2 \in CompareStrings
    /\ sim = Num(0)
    /\ sim2 = Num(0)
    /\ ranked = <<>>
    /\ scored = <<>>
    /\ NoReport

Compare ==
    /\ pc = "input"
    /\ pc' = "done"
    /\ sim' = calculateSimilarity(query, text)
    /\ sim2' = calculateSimilarity(query, text2)
    /\ UNCHANGED <<stocks, query, text, text2, ranked, scored>>
    /\ UNCHANGED pageVars
    /\ UNCHANGED reportVars

NextCompare == Compare

SpecCompare == InitCompare /\ [][NextCompare]_vars

----------------------------------------------------------------------------
(* The Search page *)

MaxStocks == 5

defaultImages ==
    << "icon-step1-gray-blue", "icon-step2-gray-blue", "icon-step3-gray-blue",
       "icon-step4-gray-blue", "icon-step5-gray-blue" >>

\* arr[i] of a JavaScript array (0-based): undefined outside the array
At(arr, i) == IF i >= 0 /\ i < Len(arr) THEN arr[i + 1] ELSE "undefined"

\* a catalog with one stock more than the selection can hold
PageCatalog == SubSeq(Pool, 1, MaxStocks + 1)

\* the values onChange hands to setKeyword: "", " ", "a"
PageKeywords == { <<>>, <<32>>, <<97>> }

\* useMemo(() => fuzzySearch(keyword, stocks), [keyword])
searchMemo == [k \in PageKeywords |-> fuzzySearch(k, PageCatalog)]
searchResults == searchMemo[rendered.keyword]

symbolsOf(sel) == [i \in 1..Len(sel) |-> sel[i].symbol]

\* { ...stock, src }
SelectedStock(stock, src) ==
    [f \in DOMAIN stock \cup {"src"} |-> IF f = "src" THEN src ELSE stock[f]]

\* handleAddStock without the capacity check
handleAddStockNoCapacity(sel, stock) ==
    IF \E i \in 1..Len(sel) : sel[i].symbol = stock.symbol
    THEN [updated |-> FALSE, selectedStocks |-> sel, keyword |-> <<>>]
    ELSE [updated |-> TRUE,
          selectedStocks |-> Append(sel, SelectedStock(stock, At(defaultImages, Len(sel)))),
          keyword |-> <<>>]

\* handleAddStock clearing the keyword before its checks
handleAddStockClearsFirst(sel, stock) ==
    IF Len(sel) >= MaxStocks \/ \E i \in 1..Len(sel) : sel[i].symbol = stock.symbol
    THEN [updated |-> TRUE, selectedStocks |-> sel, keyword |-> <<>>]
    ELSE [updated |-> TRUE,
          selectedStocks |-> Append(sel, SelectedStock(stock, At(defaultImages, Len(sel)))),
          keyword |-> <<>>]

\* handleAddStock indexing the placeholders from 1
handleAddStockOffByOne(sel, stock) ==
    IF Len(sel) >= MaxStocks \/ \E i \in 1..Len(sel) : sel[i].symbol = stock.symbol
    THEN [updated |-> FALSE, selectedStocks |-> sel, keyword |-> <<>>]
    ELSE [updated |-> TRUE,
          selectedStocks |-> Append(sel, SelectedStock(stock, At(defaultImages, Len(sel) + 1))),
          keyword |-> <<>>]

\* handleAddStock over the selectedStocks value it closed over: the state
\* setters it calls (updated = FALSE when it returns before calling any)
handleAddStock(sel, stock) ==
    IF Len(sel) >= MaxStocks
    THEN [updated |-> FALSE, selectedStocks |-> sel, keyword |-> <<>>]
    ELSE IF \E i \in 1..Len(sel) : sel[i].symbol = stock.symbol
    THEN [updated |-> FALSE, selectedStocks |-> sel, keyword |-> <<>>]
    ELSE [updated |-> TRUE,
          selectedStocks |-> Append(sel, SelectedStock(stock, At(defaultImages, Len(sel)))),
          keyword |-> <<>>]

\* handleRemoveStock with the filter predicate inverted
handleRemoveStockInverted(sel, symbol) == SelectSeq(sel, LAMBDA s : s.symbol = symbol)

\* handleRemoveStock: the value handed to setSelectedStocks
handleRemoveStock(sel, symbol) == SelectSeq(sel, LAMBDA s : s.symbol # symbol)

\* BottomCTA with onClick always set
pressEnabledAlways(sel) == TRUE

\* BottomCTA: onClick is handlePress only while the selection is non-empty
pressEnabled(sel) == Len(sel) > 0

\* handlePress: the state object handed to navigation('/report', ...)
handlePress(sel) == [hasState |-> TRUE, selectedStocks |-> symbolsOf(sel)]

\* Array(remaining).fill(null).map((_, i) => ({ label, src: defaultImages[first + i] }))
placeholders(remaining, first) ==
    [i \in 1..remaining |-> [label |-> "US stock", src |-> At(defaultImages, first + i - 1)]]

\* selectedStocks.slice(from, to) of a JavaScript array (0-based, to exclusive)
sliceFromTo(sel, from, to) == SubSeq(sel, from + 1, MathMin(to, Len(sel)))

\* items2 numbering its placeholders from the start of the array
items2FromZero(sel) ==
    LET selected == sliceFromTo(sel, 3, 5)
    IN selected \o placeholders(2 - Len(selected), Len(selected))

\* the cells of the first grid
items3(sel) ==
    LET selected == sliceFromTo(sel, 0, 3)
    IN selected \o placeholders(3 - Len(selected), Len(selected))

\* the cells of the second grid
items2(sel) ==
    LET selected == sliceFromTo(sel, 3, 5)
    IN selected \o placeholders(2 - Len(selected), 3 + Len(selected))

Init ==
    /\ pc = "page"
    /\ stocks = PageCatalog
    /\ keyword = <<>>
    /\ selectedStocks = <<>>
    /\ rendered = [keyword |-> <<>>, selectedStocks |-> <<>>]
    /\ route = "/search"
    /\ locationState = [hasState |-> FALSE, selectedStocks |-> <<>>]
    /\ lastOp = Op("mount", FALSE)
    /\ removes = 0
    /\ query = <<>>
    /\ text = <<>>
    /\ sim = Num(0)
    /\ text2 = <<>>
    /\ sim2 = Num(0)
    /\ ranked = <<>>
    /\ scored = <<>>
    /\ NoReport

\* React commits the update of a click or input event before the next event is handled
Render == rendered' = [keyword |-> keyword', selectedStocks |-> selectedStocks']

\* SearchField onChange
SetKeyword(value) ==
    /\ pc = "page" /\ route = "/search"
    /\ keyword' = value
    /\ lastOp' = Op("type", FALSE)
    /\ UNCHANGED <<pc, stocks, selectedStocks, route, locationState, removes>>
    /\ UNCHANGED pureVars
    /\ UNCHANGED reportVars
    /\ Render

\* click on row i of the dropdown, shown while keyword.trim() && searchResults.length > 0
AddStock(i) ==
    /\ pc = "page" /\ route = "/search"
    /\ trim(rendered.keyword) # <<>>
    /\ i \in Range(searchResults)
    /\ LET r == handleAddStock(rendered.selectedStocks, stocks[i])
       IN /\ IF r.updated
             THEN selectedStocks' = r.selectedStocks /\ keyword' = r.keyword
             ELSE UNCHANGED <<selectedStocks, keyword>>
          /\ lastOp' = Op("add", r.updated)
    /\ UNCHANGED <<pc, stocks, route, locationState, removes>>
    /\ UNCHANGED pureVars
    /\ UNCHANGED reportVars
    /\ Render

\* handleRemoveStock(symbol); the grid cells call it with the symbols they show,
\* the handler itself accepts any symbol
RemoveStock(symbol) ==
    /\ pc = "page" /\ route = "/search"
    /\ removes < MaxRemoves
    /\ removes' = removes + 1
    /\ selectedStocks' = handleRemoveStock(rendered.selectedStocks, symbol)
    /\ lastOp' = Op("remove", symbol \in Range(symbolsOf(rendered.selectedStocks)))
    /\ UNCHANGED <<pc, stocks, keyword, route, locationState>>
    /\ UNCHANGED pureVars
    /\ UNCHANGED reportVars
    /\ Render

\* click on the BottomCTA
Press ==
    /\ pc = "page" /\ route = "/search"
    /\ pressEnabled(rendered.selectedStocks)
    /\ route' = "/report"
    /\ locationState' = handlePress(rendered.selectedStocks)
    /\ lastOp' = Op("press", FALSE)
    /\ UNCHANGED <<pc, stocks, keyword, selectedStocks, rendered, removes>>
    /\ UNCHANGED pureVars
    /\ UNCHANGED reportVars

\* a new visit of /search mounts Search with its initial state
MountSearch ==
    /\ pc = "page" /\ route = "/report"
    /\ route' = "/search"
    /\ keyword' = <<>>
    /\ selectedStocks' = <<>>
    /\ locationState' = [hasState |-> FALSE, selectedStocks |-> <<>>]
    /\ lastOp' = Op("mount", FALSE)
    /\ removes' = 0
    /\ UNCHANGED <<pc, stocks>>
    /\ UNCHANGED pureVars
    /\ UNCHANGED reportVars
    /\ Render

Next ==
    \/ \E value \in PageKeywords : SetKeyword(value)
    \/ \E i \in 1..Len(stocks) : AddStock(i)
    \/ \E i \in 1..Len(stocks) : RemoveStock(stocks[i].symbol)
    \/ Press
    \/ MountSearch

Spec == Init /\ [][Next]_vars

----------------------------------------------------------------------------
(* The Search page with the commit of an update as a step of its own *)

\* The state setters only queue an update: React commits the updates of a handler
\* after it has returned, and until the commit the handlers of the rendered
\* elements are the closures over the values of the last render.

\* SearchField onChange, the update not yet committed
TypeKeyword(value) ==
    /\ pc = "page" /\ route = "/search"
    /\ keyword' = value
    /\ lastOp' = Op("type", FALSE)
    /\ UNCHANGED <<pc, stocks, selectedStocks, rendered, route, locationState, removes>>
    /\ UNCHANGED pureVars
    /\ UNCHANGED reportVars

\* click on row i of the rendered dropdown, the update not yet committed
ClickAdd(i) ==
    /\ pc = "page" /\ route = "/search"
    /\ trim(rendered.keyword) # <<>>
    /\ i \in Range(searchResults)
    /\ LET r == handleAddStock(rendered.selectedStocks, stocks[i])
       IN /\ IF r.updated
             THEN selectedStocks' = r.selectedStocks /\ keyword' = r.keyword
             ELSE UNCHANGED <<selectedStocks, keyword>>
          /\ lastOp' = Op("add", r.updated)
    /\ UNCHANGED <<pc, stocks, rendered, route, locationState, removes>>
    /\ UNCHANGED pureVars
    /\ UNCHANGED reportVars

\* click on the x of a rendered grid cell, the update not yet committed
ClickRemove(symbol) ==
    /\ pc = "page" /\ route = "/search"
    /\ removes < MaxRemoves
    /\ symbol \in Range(symbolsOf(rendered.selectedStocks))
    /\ removes' = removes + 1
    /\ selectedStocks' = handleRemoveStock(rendered.selectedStocks, symbol)
    /\ lastOp' = Op("remove", TRUE)
    /\ UNCHANGED <<pc, stocks, keyword, rendered, route, locationState>>
    /\ UNCHANGED pureVars
    /\ UNCHANGED reportVars

\* React commits the queued updates and renders
Commit ==
    /\ pc = "page" /\ route = "/search"
    /\ rendered # [keyword |-> keyword, selectedStocks |-> selectedStocks]
    /\ rendered' = [keyword |-> keyword, selectedStocks |-> selectedStocks]
    /\ UNCHANGED <<pc, stocks, keyword, selectedStocks, route, locationState, lastOp, removes>>
    /\ UNCHANGED pureVars
    /\ UNCHANGED reportVars

NextQueued ==
    \/ \E value \in PageKeywords : TypeKeyword(value)
    \/ \E i \in 1..Len(stocks) : ClickAdd(i)
    \/ \E i \in 1..Len(stocks) : ClickRemove(stocks[i].symbol)
    \/ Commit

SpecQueued == Init /\ [][NextQueued]_vars

----------------------------------------------------------------------------
(* The Report page *)

\* the value null of the portfolioData state, and the payload of a report on `symbols`
nullData == [isNull |-> TRUE, stocks |-> <<>>]
PortfolioData(symbols) == [isNull |-> FALSE, stocks |-> symbols]

\* the message of the branch taken without a selection
NoStocksMessage == "no stocks selected"
NetworkMessage == "network error: cannot reach the backend server"
StatusLineMessage == "API request failed: 500 Internal Server Error"

\* How a request can settle.  fetch rejects with a TypeError whose message names
\* fetch ("Failed to fetch") or not ("Load failed"); it resolves with a response
\* that is ok with a PortfolioData body or with a body that is not JSON, or not
\* ok with a body that is JSON with a detail string, JSON with the detail [],
\* plain text, or empty.
Outcome(rejected, ok, body) == [rejected |-> rejected, ok |-> ok, body |-> body]
Responses ==
    { Outcome(TRUE, FALSE, "Failed to fetch"), Outcome(TRUE, FALSE, "Load failed"),
      Outcome(FALSE, TRUE, "payload"), Outcome(FALSE, TRUE, "not json"),
      Outcome(FALSE, FALSE, "detail"), Outcome(FALSE, FALSE, "detail []"),
      Outcome(FALSE, FALSE, "text"), Outcome(FALSE, FALSE, "") }

\* the message of the Error thrown for a response that is not ok
errorMessage(body) ==
    CASE body = "detail" -> "Invalid ticker"          \* errorJson.detail
      [] body = "detail []" -> ""                     \* new Error([]).message
      [] body = "text" -> "Internal Server Error"     \* errorText
      [] OTHER -> StatusLineMessage

\* the message of the error caught: what catch hands to setError
caughtMessage(resp) ==
    IF resp.rejected
    THEN IF resp.body = "Failed to fetch" THEN NetworkMessage ELSE resp.body
    ELSE IF resp.ok THEN "Unexpected token < in JSON at position 0"
    ELSE errorMessage(resp.body)

\* the states of Report as one record
ReportState == [isLoading |-> isLoading, error |-> error,
                portfolioData |-> portfolioData, requests |-> requests]

\* the effect testing only for a missing state, not for an empty list
effectNoEmptyCheck(st, loc) ==
    IF ~loc.hasState
    THEN [st EXCEPT !.error = NoStocksMessage, !.isLoading = FALSE]
    ELSE [st EXCEPT !.isLoading = TRUE,
                    !.error = null,
                    !.requests = Append(@, [stocks |-> loc.selectedStocks,
                                            status |-> "pending",
                                            response |-> Outcome(FALSE, FALSE, "")])]

\* one run of the effect over location.state, up to the await of fetch
effect(st, loc) ==
    IF ~loc.hasState \/ Len(loc.selectedStocks) = 0
    THEN [st EXCEPT !.error = NoStocksMessage, !.isLoading = FALSE]
    ELSE [st EXCEPT !.isLoading = TRUE,
                    !.error = null,
                    !.requests = Append(@, [stocks |-> loc.selectedStocks,
                                            status |-> "pending",
                                            response |-> Outcome(FALSE, FALSE, "")])]

\* the continuation without the test of response.ok
settleNoOkCheck(st, i, resp) ==
    LET done == [st EXCEPT !.requests[i].status = "settled", !.requests[i].response = resp]
    IN IF ~resp.rejected /\ resp.body # "not json"
       THEN [done EXCEPT !.portfolioData = PortfolioData(st.requests[i].stocks),
                         !.isLoading = FALSE]
       ELSE [done EXCEPT !.error = caughtMessage(resp), !.isLoading = FALSE]

\* the continuation that leaves isLoading alone when the request failed
settleNoFinally(st, i, resp) ==
    LET done == [st EXCEPT !.requests[i].status = "settled", !.requests[i].response = resp]
    IN IF ~resp.rejected /\ resp.ok /\ resp.body = "payload"
       THEN [done EXCEPT !.portfolioData = PortfolioData(st.requests[i].stocks),
                         !.isLoading = FALSE]
       ELSE [done EXCEPT !.error = caughtMessage(resp)]

\* the continuation of fetchPortfolioData after request i has settled with resp:
\* try { setPortfolioData } catch { setError } finally { setIsLoading(false) }
settle(st, i, resp) ==
    LET done == [st EXCEPT !.requests[i].status = "settled", !.requests[i].response = resp]
    IN IF ~resp.rejected /\ resp.ok /\ resp.body = "payload"
       THEN [done EXCEPT !.portfolioData = PortfolioData(st.requests[i].stocks),
                         !.isLoading = FALSE]
       ELSE [done EXCEPT !.error = caughtMessage(resp), !.isLoading = FALSE]

\* the view Report returns
view ==
    IF isLoading THEN "loading"
    ELSE IF error \notin {null, ""} \/ portfolioData.isNull THEN "error"
    ELSE "report"

Apply(st) ==
    /\ isLoading' = st.isLoading
    /\ error' = st.error
    /\ portfolioData' = st.portfolioData
    /\ requests' = st.requests

\* the values of location.state on entering /report: none (the address typed), an
\* empty list, the symbols AAPL, the symbols AAPL and TSLA
ReportStates ==
    { [hasState |-> FALSE, selectedStocks |-> <<>>],
      [hasState |-> TRUE, selectedStocks |-> <<>>],
      [hasState |-> TRUE, selectedStocks |-> << <<65, 65, 80, 76>> >>],
      [hasState |-> TRUE, selectedStocks |-> << <<65, 65, 80, 76>>, <<84, 83, 76, 65>> >>] }

InitReport ==
    /\ pc = "enter"
    /\ stocks = <<>>
    /\ keyword = <<>>
    /\ selectedStocks = <<>>
    /\ rendered = [keyword |-> <<>>, selectedStocks |-> <<>>]
    /\ route = "/report"
    /\ locationState \in ReportStates
    /\ lastOp = Op("none", FALSE)
    /\ removes = 0
    /\ query = <<>>
    /\ text = <<>>
    /\ sim = Num(0)
    /\ text2 = <<>>
    /\ sim2 = Num(0)
    /\ ranked = <<>>
    /\ isLoading = TRUE
    /\ error = null
    /\ portfolioData = nullData
    /\ requests = <<>>
    /\ strictMode \in BOOLEAN
    /\ navigations = 0
    /\ scored = <<>>

\* Report mounts and its effect runs, twice in a build that double-invokes effects
MountReport ==
    /\ pc = "enter"
    /\ pc' = "report"
    /\ LET once == effect(ReportState, locationState)
       IN Apply(IF strictMode THEN effect(once, locationState) ELSE once)
    /\ lastOp' = Op("mount", FALSE)
    /\ UNCHANGED <<stocks, keyword, selectedStocks, rendered, route, locationState, removes,
                   strictMode, navigations>>
    /\ UNCHANGED pureVars

\* the history moves to another /report entry: location.state is a new object
\* and the effect runs again
NavigateReport(loc) ==
    /\ pc = "report"
    /\ navigations < MaxNavigations
    /\ navigations' = navigations + 1
    /\ locationState' = loc
    /\ Apply(effect(ReportState, loc))
    /\ lastOp' = Op("navigate", FALSE)
    /\ UNCHANGED <<pc, stocks, keyword, selectedStocks, rendered, route, removes, strictMode>>
    /\ UNCHANGED pureVars

\* request i settles with resp and the continuation of fetchPortfolioData runs
SettleRequest(i, resp) ==
    /\ pc = "report"
    /\ requests[i].status = "pending"
    /\ Apply(settle(ReportState, i, resp))
    /\ lastOp' = Op("settle", ~resp.rejected /\ resp.ok /\ resp.body = "payload")
    /\ UNCHANGED <<pc, stocks, keyword, selectedStocks, rendered, route, locationState, removes,
                   strictMode, navigations>>
    /\ UNCHANGED pureVars

NextReport ==
    \/ MountReport
    \/ \E loc \in ReportStates : NavigateReport(loc)
    \/ \E i \in 1..Len(requests) : \E resp \in Responses : SettleRequest(i, resp)

SpecReport == InitReport /\ [][NextReport]_vars

\* every request issued settles at some time
Settles == \A i \in 1..(MaxNavigations + 2) :
               WF_vars(i <= Len(requests) /\ \E resp \in Responses : SettleRequest(i, resp))

SpecReportFair == SpecReport /\ WF_vars(MountReport) /\ Settles

----------------------------------------------------------------------------
(* Properties of the selection (specification Spec) *)

symbolsIn(sel) == {sel[k].symbol : k \in 1..Len(sel)}

\* C1: after any sequence of add, remove and submit actions the selection holds
\* between 0 and 5 entries and no two entries share a symbol
C1_SelectionBounded ==
    /\ Len(selectedStocks) >= 0
    /\ Len(selectedStocks) <= 5
    /\ \A k, l \in 1..Len(selectedStocks) :
           k # l => selectedStocks[k].symbol # selectedStocks[l].symbol

\* a full selection reached through accepted adds and at least one remove
C1_Witness ==
    /\ Len(selectedStocks) = 5
    /\ removes > 0
    /\ lastOp = Op("add", TRUE)

\* C2: an add on a full selection, or of a symbol already selected, changes neither
\* the selection (entries, order, src) nor the query, which stays as typed
C2_AddRejectedIsNoOp ==
    [][\A i \in 1..Len(stocks) :
          ( /\ lastOp'.op = "add"
            /\ AddStock(i)
            /\ \/ Len(selectedStocks) >= 5
               \/ stocks[i].symbol \in symbolsIn(selectedStocks) )
          => ( /\ selectedStocks' = selectedStocks
               /\ keyword' = keyword
               /\ keyword' # <<>> )]_vars

\* an add was refused although the selection had room: its symbol was already selected
C2_Witness ==
    /\ lastOp = Op("add", FALSE)
    /\ Len(selectedStocks) \in 1..4
    /\ keyword # <<>>

\* C3: remove of an absent symbol changes nothing; remove of a present symbol drops
\* exactly that entry and keeps the others in order; the query is untouched
C3_Remove ==
    [][\A i \in 1..Len(stocks) :
          LET symbol == stocks[i].symbol
              n == Len(selectedStocks)
          IN (lastOp'.op = "remove" /\ RemoveStock(symbol))
             => /\ keyword' = keyword
                /\ IF symbol \notin symbolsIn(selectedStocks)
                   THEN selectedStocks' = selectedStocks
                   ELSE /\ Len(selectedStocks') = n - 1
                        /\ symbol \notin symbolsIn(selectedStocks')
                        /\ \E k \in 1..n :
                              /\ selectedStocks[k].symbol = symbol
                              /\ selectedStocks' = SubSeq(selectedStocks, 1, k - 1)
                                                      \o SubSeq(selectedStocks, k + 1, n)]_vars

\* an entry was removed and at least two entries remain
C3_Witness ==
    /\ lastOp = Op("remove", TRUE)
    /\ Len(selectedStocks) >= 2

\* C4: an accepted add appends one entry for the stock, keeps the earlier entries,
\* gives the new entry the placeholder of the old length, and empties the query
C4_AddAppends ==
    [][\A i \in 1..Len(stocks) :
          LET n == Len(selectedStocks)
              new == selectedStocks'[n + 1]
          IN ( /\ lastOp'.op = "add"
               /\ AddStock(i)
               /\ n < 5
               /\ stocks[i].symbol \notin symbolsIn(selectedStocks) )
             => ( /\ Len(selectedStocks') = n + 1
                  /\ SubSeq(selectedStocks', 1, n) = selectedStocks
                  /\ DOMAIN new = DOMAIN stocks[i] \cup {"src"}
                  /\ \A f \in DOMAIN stocks[i] : new[f] = stocks[i][f]
                  /\ n + 1 \in 1..5
                  /\ new.src = defaultImages[n + 1]
                  /\ new.src # "undefined"
                  /\ keyword' = <<>> )]_vars

\* the fifth stock was accepted
C4_Witness ==
    /\ lastOp = Op("add", TRUE)
    /\ Len(selectedStocks) = 5
    /\ keyword = <<>>

\* C5: the page moves to the report only from a non-empty selection, hands over
\* exactly its symbols in order (1 to 5, pairwise distinct) and leaves it as it was
C5_Submit ==
    [][(route = "/search" /\ route' = "/report")
          => LET payload == locationState'.selectedStocks
             IN /\ Len(selectedStocks) > 0
                /\ locationState'.hasState
                /\ Len(payload) = Len(selectedStocks)
                /\ \A k \in 1..Len(payload) : payload[k] = selectedStocks[k].symbol
                /\ Len(payload) \in 1..5
                /\ \A k, l \in 1..Len(payload) : k # l => payload[k] # payload[l]
                /\ selectedStocks' = selectedStocks]_vars

\* a full selection was submitted
C5_Witness ==
    /\ route = "/report"
    /\ lastOp.op = "press"
    /\ Len(locationState.selectedStocks) = 5

\* C17: every element of a search result is an entry of the catalog, no entry
\* appears twice in a result, and after any sequence of searches, adds and
\* removes the catalog has the entries and the order it had at mount
C17_CatalogUntouched ==
    /\ stocks = PageCatalog
    /\ \A k \in 1..Len(searchResults) : searchResults[k] \in 1..Len(stocks)
    /\ \A k, l \in 1..Len(searchResults) : k # l => searchResults[k] # searchResults[l]

\* a search is on display after stocks were added and one was removed
C17_Witness ==
    /\ rendered.keyword = <<97>>
    /\ Len(searchResults) = Len(stocks)
    /\ lastOp = Op("remove", TRUE)
    /\ Len(selectedStocks) >= 1

\* the cells of both grids in display order
GridCells == items3(rendered.selectedStocks) \o items2(rendered.selectedStocks)

\* C25: for every reachable selection of n entries the two grids together show
\* exactly 5 cells, 3 in the first grid and 2 in the second: cells 0..n-1 show
\* the selected stocks in selection order and cells n..4 are placeholders, each
\* carrying the placeholder image of its own cell index
C25_GridCells ==
    LET sel == rendered.selectedStocks
        n == Len(sel)
    IN /\ Len(items3(sel)) = 3
       /\ Len(items2(sel)) = 2
       /\ \A c \in 1..5 :
              IF c <= n THEN GridCells[c] = sel[c]
              ELSE /\ "symbol" \notin DOMAIN GridCells[c]
                   /\ GridCells[c].src = defaultImages[c]

\* four stocks are selected: one selected cell and one placeholder in the second grid
C25_Witness ==
    /\ Len(rendered.selectedStocks) = 4
    /\ "symbol" \in DOMAIN items2(rendered.selectedStocks)[1]
    /\ items2(rendered.selectedStocks)[2].src = defaultImages[5]

\* C26: in every reachable selection the entry at position i carries the
\* placeholder image of slot i, so the src values of the entries are pairwise
\* distinct, also when an add follows the removal of an earlier entry
C26_SlotImages ==
    /\ \A i \in 1..Len(selectedStocks) : selectedStocks[i].src = defaultImages[i]
    /\ \A i, j \in 1..Len(selectedStocks) :
           i # j => selectedStocks[i].src # selectedStocks[j].src

----------------------------------------------------------------------------
(* Properties of the ranker (specification SpecRank) *)

\* Hangul compatibility jamo and Hangul syllables
IsKoreanChar(c) == c \in (12593..12643) \cup (44032..55203)

ContainsKorean(q) == \E i \in 1..Len(q) : IsKoreanChar(q[i])

IsBlank(q) == \A i \in 1..Len(q) : q[i] \in WhiteSpace

\* the three weighted field scores of a candidate under the policy of the query
PolicyComponents(q, stock) ==
    LET symbolScore == calculateSimilarity(q, stock.symbol)
        nameScore == calculateSimilarity(q, stock.name)
        krScore == IF "krName" \in DOMAIN stock
                   THEN calculateSimilarity(q, stock.krName) ELSE Num(0)
    IN  IF ContainsKorean(q)
        THEN << Mul(krScore, Lit12), Mul(nameScore, Lit07), Mul(symbolScore, Lit05) >>
        ELSE << Mul(symbolScore, Lit11), nameScore, Mul(krScore, Lit06) >>

IsMaxOf(v, c) ==
    /\ \E k \in 1..3 : Eq(v, c[k])
    /\ \A k \in 1..3 : Leq(c[k], v)

Qualifying == {i \in 1..Len(scored) : Lt(Num(25), scored[i])}

\* candidate i is ranked ahead of candidate j: higher score, or equal score and
\* earlier in the catalog
Ahead(i, j) ==
    \/ Lt(scored[j], scored[i])
    \/ (Eq(scored[i], scored[j]) /\ i < j)

\* C6: rank returns at most 10 entries, each with a combined score above 25 under
\* the weighting policy (Korean or not) of the query
C6_AtMostTenAboveThreshold ==
    pc = "done" =>
        /\ Len(ranked) <= 10
        /\ \A k \in 1..Len(ranked) :
               /\ ranked[k] \in 1..Len(stocks)
               /\ \E c \in 1..3 : Lt(Num(25), PolicyComponents(query, stocks[ranked[k]])[c])

\* more than 10 candidates passed the threshold and 10 were returned
C6_Witness ==
    /\ pc = "done"
    /\ Cardinality(Qualifying) > 10
    /\ Len(ranked) = 10

\* C7: an empty or whitespace-only query yields the empty list for every catalog
\* and no candidate is scored
C7_BlankQueryEmpty ==
    (pc = "done" /\ IsBlank(query)) => (ranked = <<>> /\ scored = <<>>)

\* a query of blanks was ranked against a catalog with entries
C7_Witness ==
    /\ pc = "done"
    /\ query # <<>>
    /\ IsBlank(query)
    /\ Len(stocks) >= 2
    /\ ranked = <<>>

\* C8: the result is the first 10 of the candidates above 25 ordered by combined
\* score descending, equal scores in catalog order; no candidate left out is
\* ahead of one returned
C8_TopTenSorted ==
    (pc = "done" /\ ~IsBlank(query)) =>
        /\ Len(scored) = Len(stocks)
        /\ Len(ranked) = MathMin(10, Cardinality(Qualifying))
        /\ \A k \in 1..Len(ranked) : ranked[k] \in Qualifying
        /\ \A k, l \in 1..Len(ranked) : k < l => Ahead(ranked[k], ranked[l])
        /\ \A i \in Qualifying \ Range(ranked) :
               \A k \in 1..Len(ranked) : Ahead(ranked[k], i)

\* ten entries returned with both a tie and a strict descent among them, and a
\* qualifying candidate left out
C8_Witness ==
    /\ pc = "done"
    /\ Len(ranked) = 10
    /\ Qualifying \ Range(ranked) # {}
    /\ \E k \in 1..9 : Eq(scored[ranked[k]], scored[ranked[k + 1]])
    /\ \E k \in 1..9 : Lt(scored[ranked[k + 1]], scored[ranked[k]])

\* C9: the score of each candidate is max(kr*1.2, name*0.7, symbol*0.5) when the
\* query holds a Korean character (also next to Latin ones) and
\* max(symbol*1.1, name, kr*0.6) otherwise, kr being 0 without krName
C9_CombinedScore ==
    (pc = "done" /\ ~IsBlank(query)) =>
        /\ Len(scored) = Len(stocks)
        /\ \A i \in 1..Len(stocks) :
               IsMaxOf(scored[i], PolicyComponents(query, stocks[i]))

\* a query mixing Korean and Latin characters scored a candidate above 0, in a
\* catalog that has entries with and without krName
C9_Witness ==
    /\ pc = "done"
    /\ ContainsKorean(query)
    /\ \E i \in 1..Len(query) : query[i] \in (65..90) \cup (97..122)
    /\ \E i \in 1..Len(scored) : Lt(Num(0), scored[i])
    /\ \E i \in 1..Len(stocks) : "krName" \in DOMAIN stocks[i]
    /\ \E i \in 1..Len(stocks) : "krName" \notin DOMAIN stocks[i]

\* the two strings are equal when letter case is ignored
EqualIgnoringCase(a, b) ==
    /\ Len(a) = Len(b)
    /\ \A i \in 1..Len(a) :
           \/ a[i] = b[i]
           \/ (a[i] \in 65..90 /\ b[i] = a[i] + 32)
           \/ (b[i] \in 65..90 /\ a[i] = b[i] + 32)

\* the candidates whose symbol is the query
ExactSymbol == {i \in 1..Len(stocks) : EqualIgnoringCase(stocks[i].symbol, query)}

PositionOf(i) == CHOOSE k \in 1..Len(ranked) : ranked[k] = i

\* C14: for a query without Korean characters, the entry whose symbol equals the
\* query (letter case ignored) is returned first, with a strictly higher score
\* than and ahead of every returned entry whose symbol is not the query
C14_ExactSymbolFirst ==
    (pc = "done" /\ ~ContainsKorean(query)) =>
        \A i \in ExactSymbol :
            /\ ranked # <<>>
            /\ ranked[1] = i
            /\ \A k \in 1..Len(ranked) :
                   ranked[k] \notin ExactSymbol =>
                       /\ PositionOf(i) < k
                       /\ Lt(scored[ranked[k]], scored[i])

\* the query is the symbol of an entry that has qualifying entries before it in
\* the catalog, one of them with the query as a prefix of its symbol
C14_Witness ==
    /\ pc = "done"
    /\ ~ContainsKorean(query)
    /\ \E i \in ExactSymbol :
           /\ ranked[1] = i
           /\ Len(ranked) >= 3
           /\ \E k \in 2..Len(ranked) :
                  /\ ranked[k] < i
                  /\ Len(stocks[ranked[k]].symbol) > Len(query)
                  /\ EqualIgnoringCase(SubSeq(stocks[ranked[k]].symbol, 1, Len(query)), query)

\* C15: with the catalog [AAPL "Apple Inc.", MSFT "Microsoft Corp."] and the query
\* "appl" the result is exactly AAPL, with combined score 95; MSFT scores 0 on
\* symbol and name and is filtered out
C15_ScenarioAppl ==
    (pc = "done" /\ stocks = ScenarioCatalog /\ query = <<97, 112, 112, 108>>) =>
        /\ Len(ranked) = 1
        /\ stocks[ranked[1]].symbol = <<65, 65, 80, 76>>
        /\ Eq(scored[ranked[1]], Num(95))
        /\ stocks[2].symbol = <<77, 83, 70, 84>>
        /\ Eq(calculateSimilarity(query, stocks[2].symbol), Num(0))
        /\ Eq(calculateSimilarity(query, stocks[2].name), Num(0))
        /\ Eq(scored[2], Num(0))

\* "appl" was ranked against the two-entry catalog
C15_Witness ==
    /\ pc = "done"
    /\ stocks = ScenarioCatalog
    /\ query = <<97, 112, 112, 108>>
    /\ Len(scored) = 2
    /\ ranked = <<1>>

\* every character of q is a Hangul jamo or syllable
AllKorean(q) == q # <<>> /\ \A i \in 1..Len(q) : IsKoreanChar(q[i])

\* q occurs in t as a run of consecutive characters
OccursIn(q, t) == \E i \in 0..(Len(t) - Len(q)) : SubSeq(t, i + 1, i + Len(q)) = q

\* the candidates whose krName holds the query as a prefix or substring
KrNameMatches ==
    {i \in 1..Len(stocks) : "krName" \in DOMAIN stocks[i] /\ OccursIn(query, stocks[i].krName)}

\* the other candidates that score at least as high as candidate i
AtLeastAsHigh(i) == {j \in 1..Len(scored) : j # i /\ Leq(scored[i], scored[j])}

\* C16: for a query of Korean characters that is a prefix or substring of an
\* entry's krName the entry is scored by the Korean weighting (1.2 x its krName
\* score: 120 exact, 114 prefix, 102 substring) and is in the result, provided
\* fewer than 10 other entries score at least as high
C16_KoreanNameMatch ==
    (pc = "done" /\ AllKorean(query)) =>
        \A i \in KrNameMatches :
            LET kr == stocks[i].krName
                expected == IF kr = query THEN 120
                            ELSE IF SubSeq(kr, 1, Len(query)) = query THEN 114
                            ELSE 102
            IN /\ Eq(scored[i], Num(expected))
               /\ Cardinality(AtLeastAsHigh(i)) < 10 => i \in Range(ranked)

\* te-seul was ranked against a catalog in which TSLA (te-seul-la) is not the
\* first entry, and TSLA was returned with 1.2 x 95
C16_Witness ==
    /\ pc = "done"
    /\ query = <<53580, 49836>>
    /\ \E i \in KrNameMatches :
           /\ i > 1
           /\ stocks[i].symbol = <<84, 83, 76, 65>>
           /\ i \in Range(ranked)
           /\ Eq(scored[i], Num(114))

\* the scores of the fields of candidate i
FieldScores(i) ==
    { calculateSimilarity(query, stocks[i].symbol), calculateSimilarity(query, stocks[i].name) }
        \cup (IF "krName" \in DOMAIN stocks[i]
              THEN {calculateSimilarity(query, stocks[i].krName)} ELSE {})

\* C19 as stated: every score lies between 0 and 100 inclusive, and a combined
\* score never exceeds 120 for a Korean query and 110 for a non-Korean query
C19_ScoreRange110 ==
    (pc = "done" /\ ~IsBlank(query)) =>
        \A i \in 1..Len(stocks) :
            /\ \A x \in FieldScores(i) : Leq(Num(0), x) /\ Leq(x, Num(100))
            /\ Leq(scored[i], IF ContainsKorean(query) THEN Num(120) ELSE Num(110))

\* the double 100 * 1.1, the next double above 110: 110 + 2^-46
Product100By11 == Mul(Num(100), Lit11)

\* C19: every score lies between 0 and 100 inclusive, and a combined score never
\* exceeds 120 for a Korean query and the double product 100 * 1.1, which is
\* 110.00000000000001, for a non-Korean query
C19_ScoreRange ==
    (pc = "done" /\ ~IsBlank(query)) =>
        /\ Product100By11 = [n |-> 1100, d |-> 10, o |-> 10 * 16384]
        /\ \A i \in 1..Len(stocks) :
               /\ \A x \in FieldScores(i) : Leq(Num(0), x) /\ Leq(x, Num(100))
               /\ Leq(scored[i], IF ContainsKorean(query) THEN Num(120) ELSE Product100By11)

\* a symbol was matched exactly by a non-Korean query and scored above 110
C19_Witness ==
    /\ pc = "done"
    /\ ~ContainsKorean(query)
    /\ \E i \in ExactSymbol :
           /\ Eq(scored[i], Product100By11)
           /\ Lt(Num(110), scored[i])

\* C29: a score is never greater than 0 and at most 30; so for a query without
\* Korean characters the threshold filter discards a candidate only if both its
\* symbol score and its English-name score are 0
C29_NoLowScores ==
    (pc = "done" /\ ~IsBlank(query)) =>
        \A i \in 1..Len(stocks) :
            /\ \A x \in FieldScores(i) : ~(Lt(Num(0), x) /\ Leq(x, Num(30)))
            /\ (~ContainsKorean(query) /\ Leq(scored[i], Num(Threshold))) =>
                  /\ i \notin Range(ranked)
                  /\ Eq(calculateSimilarity(query, stocks[i].symbol), Num(0))
                  /\ Eq(calculateSimilarity(query, stocks[i].name), Num(0))

\* a query without Korean characters for which one candidate is discarded and
\* another is kept with a score below 35
C29_Witness ==
    /\ pc = "done"
    /\ ~IsBlank(query)
    /\ ~ContainsKorean(query)
    /\ \E i \in 1..Len(stocks) : Leq(scored[i], Num(Threshold))
    /\ \E j \in Range(ranked) : Lt(scored[j], Num(35))

NoKoreanNames == \A i \in 1..Len(stocks) : "krName" \notin DOMAIN stocks[i]

\* C30: for every query without Korean characters and every catalog in which no
\* entry has a Korean name, the bilingual ranker returns the same list, in the
\* same order, as the English-only ranker
C30_SameAsEnglishOnly ==
    (pc = "done" /\ ~ContainsKorean(query) /\ NoKoreanNames) =>
        ranked = englishFuzzySearch(query, stocks)

\* both rankers return several entries of a catalog without Korean names
C30_Witness ==
    /\ pc = "done"
    /\ ~ContainsKorean(query)
    /\ NoKoreanNames
    /\ Len(ranked) >= 3
    /\ ranked = englishFuzzySearch(query, stocks)

----------------------------------------------------------------------------
(* Properties of the scorer (specification SpecScore) *)

\* the same character, or the two cases of one letter
SameLetter(c, d) ==
    \/ c = d
    \/ (c \in 65..90 /\ d = c + 32)
    \/ (d \in 65..90 /\ c = d + 32)

DiffersOnlyInCase(q, t) ==
    /\ Len(q) = Len(t)
    /\ \A i \in 1..Len(q) : SameLetter(q[i], t[i])

\* C10: score(text, text) is 100 for every non-empty text, and so is score(q, text)
\* for q differing from text only in letter case
C10_ExactMatch ==
    (pc = "done" /\ text # <<>> /\ DiffersOnlyInCase(query, text)) => Eq(sim, Num(100))

\* a query scored against a text that differs from it in letter case
C10_Witness ==
    /\ pc = "done"
    /\ query # text
    /\ DiffersOnlyInCase(query, text)
    /\ Len(text) >= 2
    /\ Eq(sim, Num(100))

\* q is a prefix of t when letter case is ignored
PrefixIgnoringCase(q, t) ==
    /\ Len(q) <= Len(t)
    /\ \A i \in 1..Len(q) : SameLetter(q[i], t[i])

\* C11 as stated: whenever text starts with query (letter case ignored) and query
\* is not equal to text, the score is 95
C11_PrefixScoreAnyQuery ==
    (pc = "done" /\ PrefixIgnoringCase(query, text) /\ query # text) => Eq(sim, Num(95))

\* C11: for a non-empty query, whenever text starts with query and is not equal to
\* it, both with letter case ignored, the score is 95
C11_PrefixScore ==
    ( /\ pc = "done"
      /\ query # <<>>
      /\ PrefixIgnoringCase(query, text)
      /\ ~DiffersOnlyInCase(query, text) )
    => Eq(sim, Num(95))

\* a proper prefix written in the other letter case was scored
C11_Witness ==
    /\ pc = "done"
    /\ Len(query) >= 2
    /\ Len(text) > Len(query)
    /\ PrefixIgnoringCase(query, text)
    /\ SubSeq(text, 1, Len(query)) # query
    /\ Eq(sim, Num(95))

\* C12: the score is 0 whenever query is empty or text is empty, whatever the
\* other argument is
C12_EmptyScoresZero ==
    (pc = "done" /\ (query = <<>> \/ text = <<>>)) => Eq(sim, Num(0))

\* the empty query was scored against a text of three characters
C12_Witness ==
    /\ pc = "done"
    /\ query = <<>>
    /\ Len(text) = 3
    /\ Eq(sim, Num(0))

\* letters in lower case, as the scorer compares them
Fold(s) == [i \in 1..Len(s) |-> IF s[i] \in 65..90 THEN s[i] + 32 ELSE s[i]]

Contains(t, q) == \E i \in 1..(Len(t) - Len(q) + 1) : \A k \in 1..Len(q) : t[i + k - 1] = q[k]

EveryCharOccurs(q, t) == \A i \in 1..Len(q) : \E j \in 1..Len(t) : t[j] = q[i]

\* the characters of q appear in t in the same relative order
RECURSIVE InOrder(_, _)
InOrder(q, t) ==
    IF q = <<>> THEN TRUE
    ELSE IF t = <<>> THEN FALSE
    ELSE IF Head(q) = Head(t) THEN InOrder(Tail(q), Tail(t))
    ELSE InOrder(q, Tail(t))

\* edit distance with unit cost for insertion, deletion and substitution
RECURSIVE EditDistance(_, _)
EditDistance(a, b) ==
    IF a = <<>> THEN Len(b)
    ELSE IF b = <<>> THEN Len(a)
    ELSE LET sub == EditDistance(Tail(a), Tail(b)) + (IF Head(a) = Head(b) THEN 0 ELSE 1)
             del == EditDistance(Tail(a), b) + 1
             ins == EditDistance(a, Tail(b)) + 1
         IN IF sub <= del /\ sub <= ins THEN sub ELSE IF del <= ins THEN del ELSE ins

Occurrences(c, s) == Cardinality({i \in 1..Len(s) : s[i] = c})

RECURSIVE SumOver(_, _, _)
SumOver(chars, q, t) ==
    IF chars = {} THEN 0
    ELSE LET c == CHOOSE x \in chars : TRUE
             a == Occurrences(c, q)
             b == Occurrences(c, t)
         IN (IF a < b THEN a ELSE b) + SumOver(chars \ {c}, q, t)

\* the real number a / b
Frac(a, b) == [n |-> a, d |-> b, o |-> 0]

\* x and y are the same real number up to the rounding of double arithmetic
SameReal(x, y) == x.n * y.d = y.n * x.d

\* 100 x (sum over the distinct query characters of min(count in query, count in
\* text)) / length of query
FrequencyScore(q, t) == Frac(100 * SumOver({q[i] : i \in 1..Len(q)}, q, t), Len(q))

\* (1 - distance / max length) * 100
LevSimilarity(q, t) ==
    LET maxLen == IF Len(q) > Len(t) THEN Len(q) ELSE Len(t)
    IN Frac((maxLen - EditDistance(q, t)) * 100, maxLen)

\* the rule that decides the score of a non-empty query against a non-empty text
RuleOf(q, t) ==
    IF q = t THEN "exact"
    ELSE IF PrefixIgnoringCase(q, t) THEN "prefix"
    ELSE IF Contains(t, q) THEN "substring"
    ELSE IF EveryCharOccurs(q, t) THEN "charset"
    ELSE IF Leq(Num(50), LevSimilarity(q, t)) THEN "edit"
    ELSE IF InOrder(q, t) THEN "subsequence"
    ELSE IF Lt(Num(60), FrequencyScore(q, t)) THEN "frequency"
    ELSE "none"

\* C13: for non-empty query and text where text neither equals nor starts with
\* query, the score is the value of the first applicable rule in the order
\* substring 85; character set max(70 or 50, 0.8 x frequency score); edit
\* similarity >= 50 gives 0.7 x similarity; subsequence 40; frequency score > 60
\* gives 0.5 x frequency score; otherwise 0
C13_RuleCascade ==
    LET q == Fold(query)
        t == Fold(text)
        rule == RuleOf(q, t)
        freq == FrequencyScore(q, t)
        lev == LevSimilarity(q, t)
        bonus == IF InOrder(q, t) THEN 70 ELSE 50
    IN (pc = "done" /\ q # <<>> /\ t # <<>> /\ rule \notin {"exact", "prefix"}) =>
        CASE rule = "substring" -> Eq(sim, Num(85))
          [] rule = "charset" ->
                IF Lt(Num(bonus), Frac(freq.n * 8, freq.d * 10))
                THEN SameReal(sim, Frac(freq.n * 8, freq.d * 10))
                ELSE SameReal(sim, Num(bonus))
          [] rule = "edit" -> SameReal(sim, Frac(lev.n * 7, lev.d * 10))
          [] rule = "subsequence" -> Eq(sim, Num(40))
          [] rule = "frequency" -> SameReal(sim, Frac(freq.n * 5, freq.d * 10))
          [] rule = "none" -> Eq(sim, Num(0))

\* a score of the last rule with a value: frequency score above 60 although a
\* query character is missing from the text and the edit similarity is below 50
C13_Witness ==
    /\ pc = "done"
    /\ query # <<>>
    /\ text # <<>>
    /\ RuleOf(Fold(query), Fold(text)) = "frequency"
    /\ Lt(Num(0), sim)

\* C27: whenever query is a subsequence of text but not a contiguous substring of
\* it, case-insensitively, the score is exactly 80: the frequency score is then
\* 100, so the subsequence bonus of 70 is never the value returned
C27_SubsequenceScoresEighty ==
    LET q == Fold(query)
        t == Fold(text)
    IN (pc = "done" /\ InOrder(q, t) /\ ~Contains(t, q)) =>
        /\ Eq(characterFrequencyScore(q, t), Num(100))
        /\ Eq(sim, Num(80))

\* "AbC" is scored against "axbxc"
C27_Witness ==
    /\ pc = "done"
    /\ query = <<65, 98, 67>>
    /\ text = <<97, 120, 98, 120, 99>>
    /\ InOrder(Fold(query), Fold(text))
    /\ ~Contains(Fold(text), Fold(query))
    /\ Eq(sim, Num(80))

\* C28 as stated: the score is never 40, for any inputs
C28_NeverForty == pc = "done" => ~Eq(sim, Num(40))

\* C28: the standalone subsequence rule is unreachable, because a query that is a
\* subsequence of text always satisfies the earlier character-set rule: a score
\* is 40 only by the frequency rule, for a query that is not a subsequence of
\* the text and has a frequency score of 80
C28_FortyOnlyByFrequency ==
    LET q == Fold(query)
        t == Fold(text)
    IN /\ (pc = "done" /\ q # <<>> /\ InOrder(q, t)) =>
              RuleOf(q, t) \in {"exact", "prefix", "substring", "charset"}
       /\ (pc = "done" /\ Eq(sim, Num(40))) =>
              /\ ~InOrder(q, t)
              /\ RuleOf(q, t) = "frequency"
              /\ SameReal(FrequencyScore(q, t), Num(80))

\* "aabbc" scored against "bbaa" is 40
C28_Witness ==
    /\ pc = "done"
    /\ query = <<97, 97, 98, 98, 99>>
    /\ text = <<98, 98, 97, 97>>
    /\ Eq(sim, Num(40))

----------------------------------------------------------------------------
(* Properties of two scores of one query (specification SpecCompare) *)

\* C18 as stated: a score of the edit-distance rule is never greater than a score
\* of the exact, prefix, substring or character-set rule for the same query
C18_EditNeverOutranksStructural ==
    ( /\ pc = "done" /\ query # <<>> /\ text # <<>> /\ text2 # <<>>
      /\ RuleOf(Fold(query), Fold(text)) = "edit"
      /\ RuleOf(Fold(query), Fold(text2)) \in {"exact", "prefix", "substring", "charset"} )
    => Leq(sim, sim2)

\* C18: a score of the edit-distance rule is never greater than a score of the
\* exact, prefix or substring rule, or of the character-set rule when the query
\* is a subsequence of the text, for the same query
C18_EditNeverOutranksOrdered ==
    ( /\ pc = "done" /\ query # <<>> /\ text # <<>> /\ text2 # <<>>
      /\ RuleOf(Fold(query), Fold(text)) = "edit"
      /\ \/ RuleOf(Fold(query), Fold(text2)) \in {"exact", "prefix", "substring"}
         \/ /\ RuleOf(Fold(query), Fold(text2)) = "charset"
            /\ InOrder(Fold(query), Fold(text2)) )
    => Leq(sim, sim2)

\* an edit-distance score above 50 next to the score of a text that holds the
\* characters of the query in order
C18_Witness ==
    /\ pc = "done"
    /\ RuleOf(Fold(query), Fold(text)) = "edit"
    /\ RuleOf(Fold(query), Fold(text2)) = "charset"
    /\ InOrder(Fold(query), Fold(text2))
    /\ Lt(Num(50), sim)
    /\ Lt(sim, sim2)

----------------------------------------------------------------------------
(* Properties of the selection under queued updates (specification SpecQueued) *)

\* C20: when an add of a stock that is not selected follows an accepted add and
\* the selection has a free slot left, the selection afterwards holds what it
\* held and the new stock, also when the first update is not yet rendered
C20_NoAddLost ==
    [][\A i \in 1..Len(stocks) :
          ( /\ lastOp = Op("add", TRUE)
            /\ lastOp'.op = "add"
            /\ ClickAdd(i)
            /\ Len(selectedStocks) < 5
            /\ stocks[i].symbol \notin symbolsIn(selectedStocks) )
          => symbolsIn(selectedStocks') = symbolsIn(selectedStocks) \cup {stocks[i].symbol}]_vars

----------------------------------------------------------------------------
(* Properties of the Report page (specifications SpecReport, SpecReportFair) *)

NoPayload == ~locationState.hasState \/ locationState.selectedStocks = <<>>

Pending == {i \in 1..Len(requests) : requests[i].status = "pending"}

\* the response is ok and its body is the payload
Succeeded(resp) == ~resp.rejected /\ resp.ok /\ resp.body = "payload"

\* C21: when the report page is entered with no selected-stocks payload or with
\* an empty list, it issues no request, leaves the loading state and shows the
\* error view with the message of the missing selection; portfolio data stays unset
C21_NoPayload ==
    (pc = "report" /\ navigations = 0 /\ NoPayload) =>
        /\ requests = <<>>
        /\ ~isLoading
        /\ error = NoStocksMessage
        /\ view = "error"
        /\ portfolioData.isNull

\* the page was entered with an empty list, the effect ran twice
C21_Witness ==
    /\ pc = "report"
    /\ navigations = 0
    /\ strictMode
    /\ locationState.hasState
    /\ locationState.selectedStocks = <<>>
    /\ view = "error"

\* C22: every request that settles leaves the page out of the loading state, and
\* while requests settle at some time a loading page comes to show the report or
\* the error view
C22_LeavesLoading ==
    /\ [][(\E i \in 1..Len(requests) : \E resp \in Responses : SettleRequest(i, resp))
            => ~isLoading' /\ view' \in {"report", "error"}]_vars
    /\ ((pc = "report" /\ isLoading) ~> (view \in {"report", "error"}))

\* a request was rejected and the page shows the error view
C22_Witness ==
    /\ pc = "report"
    /\ Len(requests) = 1
    /\ requests[1].status = "settled"
    /\ requests[1].response.rejected
    /\ view = "error"

\* a single request on a fresh page has settled
SingleSettled ==
    /\ pc = "report"
    /\ navigations = 0
    /\ Len(requests) = 1
    /\ requests[1].status = "settled"

\* C23 as stated: for a single request on a fresh page an OK response sets the
\* portfolio data, leaves error unset and leads to the report view; a non-OK
\* response or a rejected fetch sets a non-empty error message, never sets
\* portfolio data and leads to the error view; the report view is shown only
\* when loading is over, error is unset and portfolio data is present
C23_OutcomeAnyBody ==
    /\ SingleSettled =>
          LET resp == requests[1].response
          IN IF ~resp.rejected /\ resp.ok
             THEN /\ portfolioData = PortfolioData(requests[1].stocks)
                  /\ error = null
                  /\ view = "report"
             ELSE /\ error \notin {null, ""}
                  /\ portfolioData.isNull
                  /\ view = "error"
    /\ view = "report" => (~isLoading /\ error = null /\ ~portfolioData.isNull)

\* C23: for a single request on a fresh page an OK response whose body parses as
\* the payload sets the portfolio data, leaves error unset and leads to the
\* report view; an OK response whose body is not JSON, a non-OK response or a
\* rejected fetch sets error to the message of the failure, which is empty only
\* for a body whose detail converts to the empty string, never sets portfolio
\* data and leads to the error view; the report view is shown only when loading
\* is over, error is unset or empty and portfolio data is present
C23_Outcome ==
    /\ SingleSettled =>
          LET resp == requests[1].response
          IN IF Succeeded(resp)
             THEN /\ portfolioData = PortfolioData(requests[1].stocks)
                  /\ error = null
                  /\ view = "report"
             ELSE /\ error # null
                  /\ (error = "") = (~resp.rejected /\ ~resp.ok /\ resp.body = "detail []")
                  /\ portfolioData.isNull
                  /\ view = "error"
    /\ view = "report" => (~isLoading /\ error \in {null, ""} /\ ~portfolioData.isNull)

\* a single request got an OK response that is not JSON and the page shows the error view
C23_Witness ==
    /\ SingleSettled
    /\ requests[1].response = Outcome(FALSE, TRUE, "not json")
    /\ view = "error"

\* C24: while a request issued by the page is unsettled the page is loading, and
\* once all requests have settled the view reflects the outcome of the request
\* issued last, also when the effect ran again before an earlier request settled
C24_LoadingWhilePending ==
    pc = "report" =>
        /\ Pending # {} => isLoading
        /\ (Pending = {} /\ requests # <<>> /\ ~NoPayload) =>
              LET last == requests[Len(requests)]
              IN IF Succeeded(last.response)
                 THEN view = "report" /\ portfolioData = PortfolioData(last.stocks)
                 ELSE view = "error"
====
